---------------------------- MODULE Spec2Model ----------------------------
(***************************************************************************)
(* A model of the CCNET bill-validator driver (src/ccnet_prot.py):         *)
(*   - CashCodeNETCommand   the frame codec (build_message, get_crc, ...)  *)
(*   - CashCodeNETResponse  the response parser (get_poll, get_bill_table) *)
(*   - CashCodeMSM          the device session over the serial transport   *)
(*   - MsmValidator         the acceptance state machine (tick, get_bills, *)
(*                          turn_off and the on_<state> handlers)          *)
(*                                                                         *)
(* The methods are sequential Python code that may raise.  Each method is  *)
(* an operator from a machine record m to a machine record: the record     *)
(* holds the object's fields, the exception in flight (exc), the value     *)
(* returned (ret), the transport operations performed (wire), the          *)
(* callbacks invoked (calls) and the bytes the device will answer with     *)
(* (rx).  Once m.exc is set, the remaining statements are skipped, as a    *)
(* raised exception skips them in Python.                                  *)
(***************************************************************************)
EXTENDS Integers, Sequences, FiniteSets, TLC

(***************************************************************************)
(* Bounds of the model.                                                    *)
(***************************************************************************)
\* the clock runs from 1 to MaxTime
MaxTime == 4
\* get_bills is called with an amount in 0..MaxAmount
MaxAmount == 2
\* get_bills is called with a timeout in 0..MaxTimeout
MaxTimeout == 1
\* the ticks in a row that re-arm the device are counted up to MaxRearms
MaxRearms == 2

(***************************************************************************)
(* Sequence helpers (Python slicing).                                      *)
(***************************************************************************)
\* s[:n]
Take(s, n) == IF n <= 0 THEN << >> ELSE SubSeq(s, 1, IF n < Len(s) THEN n ELSE Len(s))
\* s[n:]
Drop(s, n) == IF n <= 0 THEN s ELSE SubSeq(s, n + 1, Len(s))
\* s[-1]
Last(s) == s[Len(s)]

(***************************************************************************)
(* Results of the pure functions that may raise: [exc, val].               *)
(***************************************************************************)
Ok(v) == [exc |-> "none", val |-> v]
Raised(e) == [exc |-> e, val |-> "none"]

(***************************************************************************)
(* CashCodeNETCommand: the frame codec.                                    *)
(***************************************************************************)
SYNC == 2
ADR == 3

ACK == 0
RESET == 48
POLL == 51
ENABLE_BILL_TYPES == 52
STACK == 53
GET_BILL_TABLE == 65

\* a ^ b on n-bit numbers, bit by bit
RECURSIVE BitXor(_, _, _)
BitXor(a, b, n) ==
    IF n = 0 THEN 0
    ELSE (((a % 2) + (b % 2)) % 2) + 2 * BitXor(a \div 2, b \div 2, n - 1)

\* a ^ b on bytes, tabulated
Xor8 == [a \in 0..255 |-> [b \in 0..255 |-> BitXor(a, b, 8)]]

\* a ^ b on 16-bit numbers
Xor16(a, b) == (256 * Xor8[a \div 256][b \div 256]) + Xor8[a % 256][b % 256]

\* PyCRC's reflected polynomial of CRC-16/KERMIT, 0x8408
crc16Kermit_constant == 33800

\* PyCRC init_crc16kermit: j rounds of the shift register on the value crc
RECURSIVE crc_rounds(_, _)
crc_rounds(crc, j) ==
    IF j = 0 THEN crc
    ELSE crc_rounds(IF crc % 2 = 1
                    THEN Xor16(crc \div 2, crc16Kermit_constant)
                    ELSE crc \div 2,
                    j - 1)

\* the entries lo..hi of PyCRC's lookup table, in order
RECURSIVE crc_table(_, _)
crc_table(lo, hi) ==
    IF lo = hi THEN << crc_rounds(lo, 8) >>
    ELSE crc_table(lo, (lo + hi) \div 2) \o crc_table(((lo + hi) \div 2) + 1, hi)

\* PyCRC's lookup table of 256 entries: the entry of i is at position i + 1
crc16kermit_tab == crc_table(0, 255)

\* the body of the loop of CRC16Kermit.calculate, for the byte c
crc_step(crcValue, c) ==
    Xor16(crcValue \div 256, crc16kermit_tab[(Xor16(crcValue, c) % 256) + 1])

\* the loop of CRC16Kermit.calculate over the bytes lo..hi of the data, from
\* the register crcValue: the left half first, then the right half from its
\* result
RECURSIVE crc_range(_, _, _, _)
RECURSIVE crc_right(_, _, _, _)
crc_range(data, lo, hi, crcValue) ==
    IF lo > hi THEN crcValue
    ELSE IF lo = hi THEN crc_step(crcValue, data[lo])
    ELSE crc_right(data, ((lo + hi) \div 2) + 1, hi,
                   crc_range(data, lo, (lo + hi) \div 2, crcValue))
crc_right(data, lo, hi, left) ==
    IF left >= 0 THEN crc_range(data, lo, hi, left) ELSE left

\* the end of CRC16Kermit.calculate: the two bytes of the register are swapped
swap_bytes(crcValue) == (crcValue \div 256) + (256 * (crcValue % 256))

\* CRC16Kermit().calculate(bytes(message_body)): the register starts at 0
CRC16Kermit(data) == swap_bytes(crc_range(data, 1, Len(data), 0))

\* crc_int.to_bytes(2, byteorder='big')
to_bytes2(crc_int) == << crc_int \div 256, crc_int % 256 >>

\* whether bytes(t) accepts the tuple t: every value is in range(0, 256)
is_bytes(t) == \A i \in DOMAIN t : t[i] \in 0..255

\* get_crc: the checksum as two bytes; bytes(message_body) raises ValueError
\* on a value that is not a byte
get_crc(message_body) ==
    IF is_bytes(message_body)
    THEN Ok(to_bytes2(CRC16Kermit(message_body)))
    ELSE Raised("ValueError")

\* get_lng: the length of the frame built around the data
get_lng(message_data) == 1 + 1 + 1 + 1 + Len(message_data) + 2

\* message_body + self.get_crc(message_body), or the exception of get_crc
with_crc(message_body, crc) ==
    IF crc.exc # "none" THEN crc ELSE Ok(message_body \o crc.val)

\* SYNC, ADR, get_lng(data), cmd, *data
message_body_of(cmd, data) == << SYNC, ADR, get_lng(data), cmd >> \o data

\* build_message: SYNC ADR LNG CMD DATA CRC
build_message(cmd, data) ==
    with_crc(message_body_of(cmd, data), get_crc(message_body_of(cmd, data)))

\* the commands without data: their frames are built without exception
get_ack == build_message(ACK, << >>).val
get_cmd_reset == build_message(RESET, << >>).val
get_cmd_poll == build_message(POLL, << >>).val
get_cmd_get_bill_table == build_message(GET_BILL_TABLE, << >>).val
get_cmd_enable_bill_types(data) == build_message(ENABLE_BILL_TYPES, data)
get_cmd_stack == build_message(STACK, << >>).val

\* the frame disable_bill_types sends: ENABLE_BILL_TYPES with six zero bytes
\* (build_message is cached by lru_cache)
NoTypes == << 0, 0, 0, 0, 0, 0 >>
get_cmd_disable_bill_types == get_cmd_enable_bill_types(NoTypes).val

\* validate_message: the four conditions, evaluated left to right with
\* Python's short-circuit `and`; an index past the end raises IndexError
validate_message(message) ==
    IF Len(message) < 1 THEN Raised("IndexError")
    ELSE IF message[1] # SYNC THEN Ok(FALSE)
    ELSE IF Len(message) < 2 THEN Raised("IndexError")
    ELSE IF message[2] # ADR THEN Ok(FALSE)
    ELSE IF Len(message) < 3 THEN Raised("IndexError")
    ELSE IF message[3] # Len(message) THEN Ok(FALSE)
    ELSE Ok(Drop(message, Len(message) - 2)
            = get_crc(Take(message, Len(message) - 2)).val)

(***************************************************************************)
(* CashCodeNETResponse: the response parser.                               *)
(***************************************************************************)
\* poll_states: status code -> state name
poll_states ==
    (0 :> "response_error") @@ (16 :> "power_up")
    @@ (17 :> "power_up_with_bill_in_validator")
    @@ (18 :> "power_up_with_bill_in_stacker")
    @@ (19 :> "initialize") @@ (20 :> "idling") @@ (21 :> "accepting")
    @@ (23 :> "stacking") @@ (24 :> "returning") @@ (25 :> "disabled")
    @@ (26 :> "holding") @@ (27 :> "busy") @@ (28 :> "rejecting")
    @@ (33 :> "setting_type_cassette") @@ (37 :> "dispensed")
    @@ (38 :> "unloaded") @@ (40 :> "invalid_bill_number")
    @@ (41 :> "set_cassette_type") @@ (48 :> "invalid_command")
    @@ (65 :> "drop_cassette_full") @@ (66 :> "drop_cassette_removed")
    @@ (67 :> "jam_in_acceptor") @@ (68 :> "jam_in_stacker")
    @@ (69 :> "cheated") @@ (70 :> "pause") @@ (71 :> "error")
    @@ (128 :> "escrow") @@ (129 :> "stacked") @@ (130 :> "returned")
    @@ (132 :> "suspected_bill_detected")
    @@ (144 :> "counterfit_held_in_validator")

\* reject_reason: reason code -> text (the texts are cut to their first words)
reject_reason ==
    (96 :> "Insertion") @@ (97 :> "Magnetic") @@ (98 :> "Remaining in the head")
    @@ (99 :> "Multiplying") @@ (100 :> "Conveying") @@ (101 :> "Identification")
    @@ (102 :> "Verification") @@ (103 :> "Optic") @@ (104 :> "Inhibit")
    @@ (105 :> "Capacity") @@ (106 :> "Operation") @@ (108 :> "Length")
    @@ (109 :> "UV") @@ (146 :> "Unrecognized barcode")
    @@ (147 :> "incorrect number of characters in barcode")
    @@ (148 :> "unknown barcode start sequence")
    @@ (149 :> "unknown barcode stop sequence")

\* validate_response: an empty response is not valid, without looking at it
validate_response(response) ==
    IF response = << >> THEN Ok(FALSE) ELSE validate_message(response)

\* response[3:-2]
response_body(response) == SubSeq(response, 4, Len(response) - 2)

\* 10 ** n
RECURSIVE Pow10(_)
Pow10(n) == IF n = 0 THEN 1 ELSE 10 * Pow10(n - 1)

\* the body of the loop of get_bill_table: the entry of one word of 5 bytes
bill_table_entry(word) ==
    [amount |-> word[1] * Pow10(word[5]), code |-> SubSeq(word, 2, 4)]

\* the loop of get_bill_table over grouper(response_body, 5): the entries of
\* the first k groups
RECURSIVE bill_table_words(_, _)
bill_table_words(body, k) ==
    IF k = 0 THEN << >>
    ELSE Append(bill_table_words(body, k - 1),
                bill_table_entry(SubSeq(body, (5 * k) - 4, 5 * k)))

\* the bill table is a Python dict ({}) or a list of entries
Dict == [kind |-> "dict", items |-> << >>]
List(items) == [kind |-> "list", items |-> items]

\* get_bill_table once the response is validated: {} for a response that is
\* not valid; grouper pads the last group with None, and 10 ** None raises
\* TypeError
bill_table_of(response, valid) ==
    IF valid.exc # "none" THEN Raised(valid.exc)
    ELSE IF ~valid.val THEN Ok(Dict)
    ELSE IF Len(response_body(response)) % 5 # 0 THEN Raised("TypeError")
    ELSE Ok(List(bill_table_words(response_body(response),
                                  Len(response_body(response)) \div 5)))

\* get_bill_table
get_bill_table(response) == bill_table_of(response, validate_response(response))

\* cls.reject_reason.get(code)
reject_reason_get(code) ==
    IF code \in DOMAIN reject_reason THEN reject_reason[code] ELSE "None"

\* the Response(state, data, reason) of a response body
poll_response(body) ==
    IF body = << >> THEN Raised("IndexError")
    ELSE IF body[1] \notin DOMAIN poll_states THEN Raised("KeyError")
    ELSE Ok([state |-> poll_states[body[1]],
             data |-> body,
             reason |-> reject_reason_get(Last(body))])

\* get_poll once the response is validated: the body of a response that is
\* not valid is one zero byte
poll_of(response, valid) ==
    IF valid.exc # "none" THEN Raised(valid.exc)
    ELSE IF ~valid.val THEN poll_response(<< 0 >>)
    ELSE poll_response(response_body(response))

\* get_poll
get_poll(response) == poll_of(response, validate_response(response))

(***************************************************************************)
(* The Python values a method of MsmValidator returns: None, True, False   *)
(* (bool is a subclass of int: True == 1) and the integers.                *)
(***************************************************************************)
None == [type |-> "NoneType", val |-> 0]
True == [type |-> "bool", val |-> 1]
False == [type |-> "bool", val |-> 0]
IntValue(n) == [type |-> "int", val |-> n]

(***************************************************************************)
(* The machine record threaded through the methods.                        *)
(*   fields of MsmValidator: active, amount, on_time, timeout,             *)
(*     current_amount, cassette_removed;  of CashCodeMSM: bill_table       *)
(*   now    the value time.time() returns                                  *)
(*   exc    the exception in flight, or "none"                             *)
(*   ret    the value returned by the method that returned last            *)
(*   resp   the bytes returned by the last read or send_cmd                *)
(*   polled the Response the tick dispatched on                            *)
(*   wire   the transport operations so far: <<"write", bytes>> and        *)
(*          <<"read", size, bytes read>>                                   *)
(*   calls  the callbacks invoked so far: <<name>> or <<name, argument>>   *)
(*   line   the bytes the device has sent and the driver has not read      *)
(*   rx     what the device will answer: rx.poll to a POLL, rx.table to a  *)
(*          GET_BILL_TABLE, the elements of rx.cmd in turn to the others   *)
(***************************************************************************)
Raise(m, e) == [m EXCEPT !.exc = e]
Call(m, cb, args) ==
    [m EXCEPT !.calls = Append(@, [name |-> cb, args |-> args])]

\* statement sequencing: Op runs on the machine unless an exception is in flight
Then(m, Op(_)) == IF m.exc # "none" THEN m ELSE Op(m)

\* the configuration the validator is constructed with (src/bill_validator.py
\* passes country_code 'VNM' and a tuple of amounts)
country_code == << 86, 78, 77 >>
enabled_bill == {1, 2}

(***************************************************************************)
(* The transport: the serial line and the device behind it.                *)
(***************************************************************************)
\* the device receives a command: it answers nothing to an ACK, and to the
\* others what rx holds for them
device_receive(m, command) ==
    IF command[4] = ACK THEN m
    ELSE IF command[4] = POLL THEN [m EXCEPT !.line = @ \o m.rx.poll]
    ELSE IF command[4] = GET_BILL_TABLE THEN [m EXCEPT !.line = @ \o m.rx.table]
    ELSE IF m.rx.cmd = << >> THEN m
    ELSE [m EXCEPT !.line = @ \o Head(m.rx.cmd), !.rx.cmd = Tail(@)]

\* the transport operations, as m.wire records them
Written(data) == [op |-> "write", size |-> Len(data), data |-> data]
Read(size, data) == [op |-> "read", size |-> size, data |-> data]

\* self.serial.write(data)
serial_write(m, data) ==
    device_receive([m EXCEPT !.wire = Append(@, Written(data))], data)

\* self.serial.read(size): at most size bytes of what the device has sent,
\* none for a size that is not positive; m.resp is what read returns
serial_read(m, size) ==
    [m EXCEPT !.wire = Append(@, Read(size, Take(m.line, size))),
              !.resp = Take(m.line, size),
              !.line = Drop(@, size)]

(***************************************************************************)
(* CashCodeMSM: the device session.                                        *)
(***************************************************************************)
_send_command(m, command) == serial_write(m, command)

\* response = first_three + other
join_response(first_three, m) == [m EXCEPT !.resp = first_three \o @]

\* _get_response after the read of three bytes (m.resp): nothing read is
\* returned as it is; first_three[2] raises IndexError on one or two bytes
get_other(m) ==
    IF m.resp = << >> THEN m
    ELSE IF Len(m.resp) < 3 THEN Raise(m, "IndexError")
    ELSE join_response(m.resp, serial_read(m, m.resp[3] - 3))

\* _get_response: three bytes, then as many as the third byte announces
_get_response(m) == get_other(serial_read(m, 3))

\* the end of send_cmd: the ACK is written when confirmation is set; the
\* response returned is m.resp
send_ack(m, confirmation) ==
    IF confirmation THEN _send_command(m, get_ack) ELSE m

\* send_cmd: write the command, read the response, write the ACK
send_cmd(m, command, confirmation) ==
    Then(_get_response(_send_command(m, command)),
         LAMBDA m2 : send_ack(m2, confirmation))

\* the Response of get_poll, or its exception
set_polled(m, r) ==
    IF r.exc # "none" THEN Raise(m, r.exc) ELSE [m EXCEPT !.polled = r.val]

\* response_class.get_poll on the response of send_cmd
parse_poll(m) == set_polled(m, get_poll(m.resp))

\* CashCodeMSM.poll: m.polled is the parsed response
poll(m) == Then(send_cmd(m, get_cmd_poll, TRUE), parse_poll)

\* self.bill_table[i]
bill_table_item(bill_table, i) ==
    IF bill_table.kind = "dict" THEN Raised("KeyError")
    ELSE IF i >= Len(bill_table.items) THEN Raised("IndexError")
    ELSE Ok(bill_table.items[i + 1])

\* 1 << bit_num
RECURSIVE Pow2(_)
Pow2(n) == IF n = 0 THEN 1 ELSE 2 * Pow2(n - 1)

\* the body of the loop of enable_bill_types for slot bit_num, after the
\* slots before it
enable_type(before, current_type, code, bit_num) ==
    IF before.exc # "none" THEN before
    ELSE IF current_type.exc # "none" THEN current_type
    ELSE IF current_type.val.code = code
            /\ current_type.val.amount \in enabled_bill
         THEN Ok(before.val + Pow2(bit_num))
         ELSE before

\* the loop of enable_bill_types over range(n): the mask, or the exception of
\* the first slot that is not in the table
RECURSIVE enable_types(_, _, _)
enable_types(bill_table, code, n) ==
    IF n = 0 THEN Ok(0)
    ELSE enable_type(enable_types(bill_table, code, n - 1),
                     bill_table_item(bill_table, n - 1), code, n - 1)

\* n.to_bytes(3, byteorder='big')
to_bytes3(n) == << n \div 65536, (n \div 256) % 256, n % 256 >>

\* self.bill_table = the table of get_bill_table, or its exception
set_bill_table(m, table) ==
    IF table.exc # "none" THEN Raise(m, table.exc)
    ELSE [m EXCEPT !.bill_table = table.val]

\* response_class.get_bill_table on the response of send_cmd
parse_bill_table(m) == set_bill_table(m, get_bill_table(m.resp))

\* send_cmd of a command that was built, or the exception of building it
send_built(m, command, confirmation) ==
    IF command.exc # "none" THEN Raise(m, command.exc)
    ELSE send_cmd(m, command.val, confirmation)

\* the end of enable_bill_types: bills_enable + escrow_enable is sent
send_enable_types(m, mask) ==
    IF mask.exc # "none" THEN Raise(m, mask.exc)
    ELSE send_built(m,
                    get_cmd_enable_bill_types(to_bytes3(mask.val) \o to_bytes3(mask.val)),
                    TRUE)

\* CashCodeMSM.enable_bill_types
enable_bill_types(m, code) ==
    Then(Then(send_cmd(m, get_cmd_get_bill_table, TRUE), parse_bill_table),
         LAMBDA m2 : send_enable_types(m2, enable_types(m2.bill_table, code, 3 * 8)))

\* CashCodeMSM.disable_bill_types
disable_bill_types(m) == send_cmd(m, get_cmd_disable_bill_types, TRUE)

\* CashCodeMSM.stack
stack(m) == send_cmd(m, get_cmd_stack, TRUE)

\* CashCodeMSM.reset
reset(m) == send_cmd(m, get_cmd_reset, FALSE)

(***************************************************************************)
(* MsmValidator: the acceptance state machine.                             *)
(***************************************************************************)
\* get_bills without the test of self.active: a faulty variant, to show that
\* the properties of get_bills below depend on the test
get_bills_untested(m, amt, tmo) ==
    [m EXCEPT !.amount = amt, !.on_time = m.now, !.timeout = tmo,
              !.active = TRUE, !.ret = True]

\* get_bills
get_bills(m, amt, tmo) ==
    IF m.active THEN [m EXCEPT !.ret = False]
    ELSE [m EXCEPT !.amount = amt, !.on_time = m.now, !.timeout = tmo,
                   !.active = TRUE, !.ret = True]

\* the assignments of turn_off without self.current_amount = 0: a faulty
\* variant, to show that the amount a new session starts from depends on it
turn_off_fields_kept(m) ==
    [m EXCEPT !.active = FALSE, !.amount = 0, !.on_time = 0, !.timeout = 0]

\* the assignments of turn_off
turn_off_fields(m) ==
    [m EXCEPT !.active = FALSE, !.amount = 0, !.on_time = 0, !.timeout = 0,
              !.current_amount = 0]

\* the device call of turn_off
turn_off_device(m, force) == IF force THEN reset(m) ELSE disable_bill_types(m)

\* turn_off that resets the fields after the device was spoken to: a faulty
\* variant, to show that the end of a session depends on the order
turn_off_device_first(m, force) ==
    Then(turn_off_device(m, force),
         LAMBDA m2 : [turn_off_fields(m2) EXCEPT !.ret = IntValue(m.current_amount)])

\* turn_off: the fields are reset before the device is spoken to, and the
\* amount held on entry is returned
turn_off(m, force) ==
    Then(turn_off_device(turn_off_fields(m), force),
         LAMBDA m2 : [m2 EXCEPT !.ret = IntValue(m.current_amount)])

on_power_up(m) == reset(m)

on_initialize(m) == m

\* on_disabled that asks for the bill table only while none is loaded: a
\* faulty variant, to show that the device is re-armed on every tick
on_disabled_once(m) ==
    IF m.active /\ m.bill_table.kind = "dict"
    THEN enable_bill_types([m EXCEPT !.cassette_removed = FALSE], country_code)
    ELSE [m EXCEPT !.cassette_removed = FALSE]

on_disabled(m) ==
    IF m.active
    THEN enable_bill_types([m EXCEPT !.cassette_removed = FALSE], country_code)
    ELSE [m EXCEPT !.cassette_removed = FALSE]

on_idling(m) == m

on_accepting(m) == m

\* the bill the response names: self.validator.bill_table[response.data[-1]]
polled_bill(m) == bill_table_item(m.bill_table, Last(m.polled.data))

\* the log line of on_escrow and on_returned, which looks the bill up
log_bill(m) ==
    IF polled_bill(m).exc # "none" THEN Raise(m, polled_bill(m).exc) ELSE m

\* on_escrow: the bill is looked up for the log after the STACK exchange
on_escrow(m) == Then(stack(m), log_bill)

on_stacking(m) == m

\* callback_get_bills_done(self.turn_off())
get_bills_done(m) ==
    Then(turn_off(m, FALSE),
         LAMBDA m2 : Call(m2, "callback_get_bills_done", << m2.ret.val >>))

\* the end of on_stacked with < for <=: a faulty variant, to show that the
\* bound on the accumulated amount depends on the comparison
check_amount_strict(m) ==
    IF m.amount < m.current_amount THEN get_bills_done(m) ELSE m

\* the end of on_stacked, once the bill is counted
check_amount(m) ==
    IF m.amount <= m.current_amount THEN get_bills_done(m) ELSE m

\* on_stacked that compares the amounts only while a session is active: a
\* faulty variant, to show that a bill stacked without a session is cleared
\* by the comparison with the amount 0
stack_bill_in_session(m, bill_value) ==
    IF m.active
    THEN check_amount([Call(m, "callback_bill_stacked", << bill_value >>)
                         EXCEPT !.current_amount = @ + bill_value])
    ELSE [Call(m, "callback_bill_stacked", << bill_value >>)
            EXCEPT !.current_amount = @ + bill_value]

\* on_stacked with the value of the bill
stack_bill(m, bill_value) ==
    check_amount([Call(m, "callback_bill_stacked", << bill_value >>)
                    EXCEPT !.current_amount = @ + bill_value])

on_stacked(m) ==
    IF polled_bill(m).exc # "none" THEN Raise(m, polled_bill(m).exc)
    ELSE stack_bill(m, polled_bill(m).val.amount)

on_returned(m) == log_bill(m)

on_rejecting(m) == m

\* on_drop_cassette_removed without the test of the latch: a faulty variant
on_drop_cassette_removed_unlatched(m) ==
    [Call(m, "callback_cassette_removed", << >>) EXCEPT !.cassette_removed = TRUE]

on_drop_cassette_removed(m) ==
    IF ~m.cassette_removed
    THEN [Call(m, "callback_cassette_removed", << >>)
            EXCEPT !.cassette_removed = TRUE]
    ELSE m

\* on_response_error that reports the removal once per session of reading
\* (it stays silent while the latch of the cassette is set): a faulty variant
on_response_error_latched(m) ==
    IF m.polled.data = << 0 >> /\ ~m.cassette_removed
    THEN Call(m, "callback_device_removed", << >>)
    ELSE m

on_response_error(m) ==
    IF m.polled.data = << 0 >> THEN Call(m, "callback_device_removed", << >>)
    ELSE m

\* getattr(self, 'on_{}'.format(response.state))(response): a state without a
\* method of that name raises AttributeError
dispatch(m) ==
    CASE m.polled.state = "power_up" -> on_power_up(m)
      [] m.polled.state = "initialize" -> on_initialize(m)
      [] m.polled.state = "disabled" -> on_disabled(m)
      [] m.polled.state = "idling" -> on_idling(m)
      [] m.polled.state = "accepting" -> on_accepting(m)
      [] m.polled.state = "escrow" -> on_escrow(m)
      [] m.polled.state = "stacking" -> on_stacking(m)
      [] m.polled.state = "stacked" -> on_stacked(m)
      [] m.polled.state = "returned" -> on_returned(m)
      [] m.polled.state = "rejecting" -> on_rejecting(m)
      [] m.polled.state = "drop_cassette_removed" -> on_drop_cassette_removed(m)
      [] m.polled.state = "response_error" -> on_response_error(m)
      [] OTHER -> Raise(m, "AttributeError")

\* the timeout step that reads current_amount after turn_off: a faulty
\* variant, to show that the callback is given what turn_off returns
timed_out_reset(m) ==
    Then(turn_off(m, FALSE),
         LAMBDA m2 : Call(m2, "callback_timeout", << m2.current_amount >>))

\* self.callback_timeout(self.turn_off())
timed_out(m) ==
    Then(turn_off(m, FALSE),
         LAMBDA m2 : Call(m2, "callback_timeout", << m2.ret.val >>))

\* the first statement of tick: the session is turned off on timeout
tick_timeout(m) ==
    IF m.active /\ m.on_time + m.timeout < m.now THEN timed_out(m) ELSE m

\* time.sleep(0.5), in units of half a second; tick returns None
sleep(m) == [m EXCEPT !.now = @ + 1, !.ret = None]

\* tick
tick(m) == Then(Then(Then(tick_timeout(m), poll), dispatch), sleep)

(***************************************************************************)
(* The device: what it may send in answer to a command.                    *)
(***************************************************************************)
\* a frame as the device builds it: SYNC ADR LNG DATA CRC
device_frame(body) ==
    (<< SYNC, ADR, Len(body) + 5 >> \o body)
        \o get_crc(<< SYNC, ADR, Len(body) + 5 >> \o body).val

\* frames that are not valid, and reads cut short by the transport's timeout:
\* nothing, one byte, two bytes, a header alone, a length below 3, a wrong
\* checksum
BadReplies ==
    { << >>, << 2 >>, << 2, 3 >>, << 2, 3, 6 >>, << 2, 3, 2 >>,
      << 2, 3, 6, 20, 0, 0 >> }

\* the bodies of the POLL responses: a status code and its data
PollBodies ==
    { << 0 >>, << 0, 1 >>, << 16 >>, << 17 >>, << 18 >>, << 19 >>, << 20 >>, << 21 >>,
      << 22 >>, << 23 >>, << 24 >>, << 25 >>, << 27 >>, << 28, 96 >>, << 65 >>,
      << 66 >>,
      << 128, 0 >>, << 128, 24 >>, << 129, 0 >>, << 129, 1 >>, << 129, 24 >>,
      << 129 >>, << 130, 0 >>, << >> }

PollReplies == { device_frame(b) : b \in PollBodies } \cup BadReplies

\* the answers to the commands whose response the driver does not look at: an
\* ACK frame, nothing, a single byte
CmdReplies == { device_frame(<< ACK >>), << >>, << 2 >> }

\* a record of the bill table: digit, three characters, exponent
VNM1 == << 1, 86, 78, 77, 0 >>
VNM2 == << 2, 86, 78, 77, 0 >>
USD1 == << 1, 85, 83, 68, 0 >>
NoBill == << 0, 0, 0, 0, 0 >>

RECURSIVE Repeat(_, _)
Repeat(s, n) == IF n = 0 THEN << >> ELSE s \o Repeat(s, n - 1)

\* the device's table of 24 records
FullTable == VNM1 \o VNM2 \o USD1 \o Repeat(NoBill, 21)

\* a table of 24 records whose bills are in the slots 9 and 23
SpreadTable == Repeat(NoBill, 9) \o VNM2 \o Repeat(NoBill, 13) \o VNM1

\* the answers to GET_BILL_TABLE: the tables, a table of two records, a body
\* that is not a multiple of five bytes, and the replies that are not valid
TableReplies ==
    { device_frame(FullTable), device_frame(SpreadTable),
      device_frame(VNM1 \o VNM2),
      device_frame(VNM1 \o << 2, 86 >>), device_frame(<< >>) }
    \cup BadReplies

(***************************************************************************)
(* The state: the fields of the objects, the clock, what the last          *)
(* operation was and did, and the history variables.                       *)
(*   op, arg   the call just made ("none" between two calls) and its       *)
(*             arguments (those it does not take are                       *)
(*             0 and FALSE)                                                *)
(*   ret, exc  what it returned, or the exception it raised                *)
(*   polled, wire, calls   the Response it dispatched on, its transport    *)
(*             operations and its callbacks, in order                      *)
(*   granted   the amount of the last get_bills that returned True         *)
(*   removals  the callback_cassette_removed calls since the last tick     *)
(*             that observed `disabled`                                    *)
(*   rearms    the ticks in a row, up to the last one and counted up to    *)
(*             MaxRearms, that observed `disabled` with the session active *)
(*             (0 after a turn_off of the caller)                          *)
(*   stacked_sum   the sum of the amounts passed to callback_bill_stacked  *)
(*             in the session in progress, 0 when there is none            *)
(* and, for the functions of the codec and of the parser called on their   *)
(* own:                                                                    *)
(*   fn        the function called ("none" before the call)                *)
(*   input     its arguments: an opcode and a sequence of values, which is *)
(*             the data of build_message and the bytes the others parse    *)
(*   output    what it returned, or the exception it raised                *)
(***************************************************************************)
VARIABLES
    active, amount, on_time, timeout, current_amount, cassette_removed,
    bill_table,
    now,
    op, arg, ret, exc, polled, wire, calls,
    granted, removals, rearms, stacked_sum,
    fn, input, output

vars == << active, amount, on_time, timeout, current_amount, cassette_removed,
           bill_table, now, op, arg, ret, exc, polled, wire, calls, granted,
           removals, rearms, stacked_sum, fn, input, output >>

\* the variables of the validator and of its caller
machine == << active, amount, on_time, timeout, current_amount,
              cassette_removed, bill_table, now, op, arg, ret, exc, polled,
              wire, calls, granted, removals, rearms, stacked_sum >>

\* the variables of a call of a function of the codec or of the parser
pure == << fn, input, output >>

NoResponse == [state |-> "none", data |-> << >>, reason |-> "None"]

\* no function called: no arguments, nothing returned
NoInput == [cmd |-> 0, data |-> << >>]
NoOutput ==
    [exc |-> "none", frame |-> << >>, valid |-> FALSE, poll |-> NoResponse,
     table |-> Dict]

\* the machine at the start of an operation, with the device's answers rx
Machine(rx) ==
    [active |-> active, amount |-> amount, on_time |-> on_time,
     timeout |-> timeout, current_amount |-> current_amount,
     cassette_removed |-> cassette_removed, bill_table |-> bill_table,
     now |-> now, exc |-> "none", ret |-> None, resp |-> << >>,
     polled |-> NoResponse, wire |-> << >>, calls |-> << >>, line |-> << >>,
     rx |-> rx]

\* the arguments of the calls
Args(amt, tmo, force) == [amount |-> amt, timeout |-> tmo, force |-> force]
NoArgs == Args(0, 0, FALSE)

NoAnswers == [poll |-> << >>, table |-> << >>, cmd |-> << >>]

\* the state after the operation name(args) has run the machine to m
Commit(m, name, args) ==
    /\ active' = m.active
    /\ amount' = m.amount
    /\ on_time' = m.on_time
    /\ timeout' = m.timeout
    /\ current_amount' = m.current_amount
    /\ cassette_removed' = m.cassette_removed
    /\ bill_table' = m.bill_table
    /\ now' = m.now
    /\ op' = name
    /\ arg' = args
    /\ ret' = m.ret
    /\ exc' = m.exc
    /\ polled' = m.polled
    /\ wire' = m.wire
    /\ calls' = m.calls
    /\ UNCHANGED pure

\* MsmValidator.__init__ (after CashCodeMSM.__init__)
Constructed ==
    /\ cassette_removed = FALSE
    /\ active = FALSE
    /\ on_time = 0
    /\ timeout = 0
    /\ amount = 0
    /\ current_amount = 0
    /\ bill_table = Dict
    /\ now = 1
    /\ op = "none"
    /\ arg = NoArgs
    /\ ret = None
    /\ exc = "none"
    /\ polled = NoResponse
    /\ wire = << >>
    /\ calls = << >>
    /\ granted = << >>
    /\ removals = 0
    /\ rearms = 0
    /\ stacked_sum = 0

Init ==
    /\ Constructed
    /\ fn = "none"
    /\ input = NoInput
    /\ output = NoOutput

\* no call is in progress or recorded: the caller is between two calls
Idle == op = "none"

\* the callbacks of the name cb among the calls cs
CallsOf(cs, cb) == SelectSeq(cs, LAMBDA c : c.name = cb)

\* the sum of the amounts passed to callback_bill_stacked among the calls cs
RECURSIVE StackedIn(_)
StackedIn(cs) ==
    IF cs = << >> THEN 0
    ELSE (IF cs[1].name = "callback_bill_stacked" THEN cs[1].args[1] ELSE 0)
         + StackedIn(Tail(cs))

\* whether the session of the machine has timed out (the test of tick)
Expired == active /\ on_time + timeout < now

\* the status byte of a response of the device, -1 when it has none
status_byte(p) == IF Len(p) > 3 THEN p[4] ELSE -1

\* whether the handler of the POLL response p may ask for the bill table: the
\* device reports `disabled` (0x19) and the session is active when the
\* handler runs
AsksTable(p) == status_byte(p) = 25 /\ active /\ ~Expired

\* whether the handler of the POLL response p may send a command that the
\* device answers, the bill table being answered with t: the device reports
\* `power_up` or `escrow`, or `stacked` when a bill table is loaded (the
\* handler raises without one), or the table asked for has records
SendsCommand(p, t) ==
    \/ status_byte(p) \in { 16, 128 }
    \/ status_byte(p) = 129 /\ bill_table.kind = "list"
    \/ AsksTable(p) /\ Len(t) > 5

\* whether the exchange answered with c raises: the read of the header
\* returned one or two bytes
CutShort(c) == Len(c) \in { 1, 2 }

\* the machine with its clock read up to MaxTime: MaxTime stands for every
\* time from MaxTime on
Saturated(m) == [m EXCEPT !.now = IF @ > MaxTime THEN MaxTime ELSE @]

\* the caller calls tick(); the device answers each command of the tick: the
\* disable of a timeout (c1), the POLL (p), the GET_BILL_TABLE (t) and the
\* command of the handler (c2); a tick that raises in the timeout step asks
\* nothing more
LiveTick ==
    /\ Idle
    /\ \E c1 \in IF Expired THEN CmdReplies ELSE { << >> } :
       \E p \in IF CutShort(c1) THEN { << >> } ELSE PollReplies :
       \E t \in IF AsksTable(p) THEN TableReplies ELSE { << >> } :
       \E c2 \in IF SendsCommand(p, t) THEN CmdReplies ELSE { << >> } :
          Commit(Saturated(tick(Machine([poll |-> p, table |-> t,
                     cmd |-> IF Expired THEN << c1, c2 >> ELSE << c2 >>]))),
                 "tick", NoArgs)
    /\ removals' = IF polled'.state = "disabled" THEN 0
                   ELSE removals + Len(CallsOf(calls', "callback_cassette_removed"))
    /\ rearms' = IF polled'.state = "disabled" /\ active /\ ~Expired
                 THEN (IF rearms < MaxRearms THEN rearms + 1 ELSE rearms)
                 ELSE 0
    /\ stacked_sum' = IF active' THEN stacked_sum + StackedIn(calls') ELSE 0
    /\ UNCHANGED granted

\* the tick before the time MaxTime, where the clock is read as it is
Tick == now < MaxTime /\ LiveTick

\* the caller calls get_bills(amt, tmo)
GetBillsWith(amt, tmo) ==
    /\ Idle
    /\ Commit(get_bills(Machine(NoAnswers), amt, tmo), "get_bills",
              Args(amt, tmo, FALSE))
    /\ granted' = IF active THEN granted ELSE << amt >>
    /\ stacked_sum' = IF active THEN stacked_sum ELSE 0
    /\ UNCHANGED << removals, rearms >>

GetBills == \E amt \in 0..MaxAmount, tmo \in 0..MaxTimeout : GetBillsWith(amt, tmo)

\* get_bills called while the time it allows ends before MaxTime
LiveGetBills ==
    \E amt \in 0..MaxAmount, tmo \in 0..MaxTimeout :
       now + tmo < MaxTime /\ GetBillsWith(amt, tmo)

\* the caller calls turn_off(force)
TurnOff ==
    /\ Idle
    /\ \E force \in BOOLEAN, c \in CmdReplies :
          Commit(turn_off(Machine([NoAnswers EXCEPT !.cmd = << c >>]), force),
                 "turn_off", Args(0, 0, force))
    /\ rearms' = 0
    /\ stacked_sum' = 0
    /\ UNCHANGED << granted, removals >>

\* time passes between two calls
Elapse ==
    /\ Idle
    /\ now < MaxTime
    /\ now' = now + 1
    /\ UNCHANGED << active, amount, on_time, timeout, current_amount,
                    cassette_removed, bill_table, op, arg, ret, exc, polled,
                    wire, calls, granted, removals, rearms, stacked_sum, fn,
                    input, output >>

\* the call has returned or raised and the caller goes on: what is recorded
\* of the call is dropped, the objects stay as the call left them
Return ==
    /\ ~Idle
    /\ op' = "none"
    /\ arg' = NoArgs
    /\ ret' = None
    /\ exc' = "none"
    /\ polled' = NoResponse
    /\ wire' = << >>
    /\ calls' = << >>
    /\ UNCHANGED << active, amount, on_time, timeout, current_amount,
                    cassette_removed, bill_table, now, granted, removals,
                    rearms, stacked_sum, fn, input, output >>

Next == Tick \/ GetBills \/ TurnOff \/ Elapse \/ Return

Spec == Init /\ [][Next]_vars

LiveNext == LiveTick \/ LiveGetBills \/ TurnOff \/ Elapse \/ Return

\* a step of LiveTick: the only step of LiveNext that goes from no call to a
\* call of tick
TickCalled == Idle /\ op' = "tick"

\* the caller's program when it goes on for ever: every call returns or
\* raises, the clock goes on until it has passed every time allowed to a
\* session, and tick is called again and again. The last conjunct is
\* SF_vars(LiveTick) written out: LiveTick is enabled exactly when the caller
\* is between two calls
LiveSpec ==
    /\ Init
    /\ [][LiveNext]_vars
    /\ WF_vars(Return)
    /\ SF_vars(Elapse)
    /\ ([]<>Idle => []<><<TickCalled>>_vars)

(***************************************************************************)
(* The functions of the codec and of the parser, called on their own: the  *)
(* arguments are drawn at the start, and each function is applied to them. *)
(***************************************************************************)
\* the protocol's ceiling on the data of a frame (DATA 0-250)
MaxDataLen == 250

\* n values: the multiples of k, as bytes
Fill(n, k) == SubSeq([i \in 1..MaxDataLen |-> (k * i) % 256], 1, n)

\* the opcodes, the lengths and the contents build_message is given
Opcodes == { ACK, POLL, ENABLE_BILL_TYPES, 255 }
DataLens == { 0, 1, 6, MaxDataLen - 1, MaxDataLen }
Fills == { 0, 1, 255 }

BuildInputs ==
    { [cmd |-> c, data |-> Fill(n, k)] : c \in Opcodes, n \in DataLens, k \in Fills }

\* the frame of the device that reports `idling`, and the same frame with
\* one of the four conditions of validate_message broken
Idling == device_frame(<< 20 >>)
Malformed ==
    { [Idling EXCEPT ![1] = 1], [Idling EXCEPT ![2] = 1],
      [Idling EXCEPT ![3] = 7], [Idling EXCEPT ![6] = (@ + 1) % 256],
      Idling \o << 0 >>, Take(Idling, 5) }

\* sequences shorter than the shortest frame
Short ==
    { << >>, << 2 >>, << 7 >>, << 2, 3 >>, << 2, 9 >>, << 2, 3, 3 >>,
      << 2, 3, 6 >>, << 2, 3, 4, 0 >>, << 2, 3, 4, 20 >> }

\* the records 0..n-1 of a bill table whose records all differ
RECURSIVE table_records(_)
table_records(n) ==
    IF n = 0 THEN << >>
    ELSE table_records(n - 1)
         \o << ((n - 1) % 9) + 1, 64 + n, 78, 77, (n - 1) % 4 >>

\* bodies of GET_BILL_TABLE responses: 24 records, fewer, and bodies whose
\* last group has 1 to 4 bytes
TableBodies ==
    { table_records(24), table_records(3), FullTable }
    \cup { table_records(24) \o Take(VNM1, k) : k \in 1..4 }
    \cup { Take(VNM1, k) : k \in 1..4 }

\* the byte sequences the parser is given
Messages ==
    Short \cup Malformed \cup PollReplies \cup TableReplies
    \cup { device_frame(b) : b \in TableBodies }

Inputs == BuildInputs \cup { [cmd |-> 0, data |-> b] : b \in Messages }

\* what the functions return, as an output
build_output(r) ==
    [NoOutput EXCEPT !.exc = r.exc,
                     !.frame = IF r.exc = "none" THEN r.val ELSE << >>]
validate_output(r) ==
    [NoOutput EXCEPT !.exc = r.exc,
                     !.valid = IF r.exc = "none" THEN r.val ELSE FALSE]
table_output(r) ==
    [NoOutput EXCEPT !.exc = r.exc,
                     !.table = IF r.exc = "none" THEN r.val ELSE Dict]
poll_output(r) ==
    [NoOutput EXCEPT !.exc = r.exc,
                     !.poll = IF r.exc = "none" THEN r.val ELSE NoResponse]

\* the arguments are chosen; the validator stays as constructed
CodecInit ==
    /\ Constructed
    /\ fn = "none"
    /\ input \in Inputs
    /\ output = NoOutput

\* build_message(cmd, data)
BuildMessage ==
    /\ fn = "none"
    /\ fn' = "build_message"
    /\ output' = build_output(build_message(input.cmd, input.data))
    /\ UNCHANGED << input, machine >>

\* validate_message(message)
ValidateMessage ==
    /\ fn = "none"
    /\ fn' = "validate_message"
    /\ output' = validate_output(validate_message(input.data))
    /\ UNCHANGED << input, machine >>

\* get_bill_table(response)
GetBillTable ==
    /\ fn = "none"
    /\ fn' = "get_bill_table"
    /\ output' = table_output(get_bill_table(input.data))
    /\ UNCHANGED << input, machine >>

\* get_poll(response)
GetPoll ==
    /\ fn = "none"
    /\ fn' = "get_poll"
    /\ output' = poll_output(get_poll(input.data))
    /\ UNCHANGED << input, machine >>

CodecNext == BuildMessage \/ ValidateMessage \/ GetBillTable \/ GetPoll

CodecSpec == CodecInit /\ [][CodecNext]_vars

(***************************************************************************)
(* What the properties below observe of an operation.                      *)
(***************************************************************************)
\* the frames written to the transport among the operations w that carry the
\* opcode cmd
Writes(w, cmd) == SelectSeq(w, LAMBDA e : e.op = "write" /\ e.data[4] = cmd)

\* the frames written to the transport among the operations w, and the last
\* n of them
WritesOf(w) == SelectSeq(w, LAMBDA e : e.op = "write")
LastWrites(w, n) ==
    SubSeq(WritesOf(w), (Len(WritesOf(w)) - n) + 1, Len(WritesOf(w)))

\* whether the operations w hold a POLL exchange whose read of the header
\* returned no byte
PollReadNothing(w) ==
    \E i \in 1..(Len(w) - 1) :
        w[i] = Written(get_cmd_poll) /\ w[i + 1] = Read(3, << >>)

\* whether the bill table holds the bill the Response r names, and its amount
BillKnown(r) ==
    /\ r.data # << >>
    /\ bill_table.kind = "list"
    /\ Last(r.data) < Len(bill_table.items)
BillAmount(r) == bill_table.items[Last(r.data) + 1].amount

\* the record of a callback among the calls
Called(cb, args) == [name |-> cb, args |-> args]

(***************************************************************************)
(* Properties.                                                             *)
(***************************************************************************)

\* C1: get_bills called while a session is active returns False and leaves
\* amount, on_time, timeout, current_amount and active as they were; called
\* with no session active it returns True and the session is active with the
\* amount and the timeout given.
C1_get_bills ==
    [][op' = "get_bills" =>
         IF active
         THEN /\ ret' = False
              /\ UNCHANGED << amount, on_time, timeout, current_amount, active >>
         ELSE /\ ret' = True
              /\ active'
              /\ amount' = arg'.amount
              /\ timeout' = arg'.timeout]_vars

\* a get_bills refused while a session with another amount is active
C1_refused ==
    /\ op = "get_bills" /\ ret = False
    /\ active /\ arg.amount # amount /\ current_amount > 0

\* C2: right after a get_bills that returned True, whatever calls came
\* before, current_amount is 0 and on_time is the value of the clock.
C2_fresh_session ==
    (op = "get_bills" /\ ret = True) => (current_amount = 0 /\ on_time = now)

\* a get_bills accepted after an earlier session (the bill table was loaded
\* by it) and after time has passed
C2_second_session ==
    /\ op = "get_bills" /\ ret = True
    /\ bill_table.kind = "list" /\ now > 2

\* C3: a tick that dispatches `stacked` while a session is active, with a
\* bill of the table that brings current_amount to amount or more, invokes
\* callback_bill_stacked with the bill, turns the session off with one
\* disable, and invokes callback_get_bills_done once with the old
\* current_amount plus the bill.
C3_goal_same_tick ==
    [][(/\ op' = "tick" /\ active /\ ~Expired
        /\ polled'.state = "stacked" /\ BillKnown(polled')
        /\ current_amount + BillAmount(polled') >= amount)
       =>
       (/\ CallsOf(calls', "callback_bill_stacked")
             = << Called("callback_bill_stacked", << BillAmount(polled') >>) >>
        /\ CallsOf(calls', "callback_get_bills_done")
             = << Called("callback_get_bills_done", << current_amount + BillAmount(polled') >>) >>
        /\ Writes(wire', ENABLE_BILL_TYPES)
             = << Written(get_cmd_disable_bill_types) >>
        /\ ~active' /\ amount' = 0 /\ on_time' = 0 /\ timeout' = 0
        /\ current_amount' = 0)]_vars

\* C4: a tick turns the session off for timeout exactly when a session is
\* active on entry and on_time + timeout < the clock; it then sends the
\* disable and invokes callback_timeout once, with current_amount; no tick
\* invokes callback_timeout otherwise.
C4_timeout ==
    [][op' = "tick" =>
         IF Expired
         THEN /\ CallsOf(calls', "callback_timeout")
                   = << Called("callback_timeout", << current_amount >>) >>
              /\ Len(Writes(wire', ENABLE_BILL_TYPES)) >= 1
              /\ wire'[1] = Written(get_cmd_disable_bill_types)
         ELSE /\ CallsOf(calls', "callback_timeout") = << >>
              /\ (polled'.state # "stacked" => active' = active)]_vars

\* C5: every callback_get_bills_done is invoked with at least the amount of
\* the last get_bills that returned True.
C5_goal_reached_amount ==
    \A i \in DOMAIN calls :
        calls[i].name = "callback_get_bills_done" =>
            (granted # << >> /\ calls[i].args[1] >= granted[1])

\* C6: a session that is active with amount > 0 has current_amount < amount.
C6_below_target ==
    (active /\ amount > 0) => current_amount < amount

\* a tick has counted a bill and the session goes on
C6_counting == op = "tick" /\ active /\ amount = 2 /\ current_amount = 1

\* C7: callback_cassette_removed is invoked at most once between two ticks
\* that observe `disabled`: a tick invokes it exactly when it observes
\* `drop_cassette_removed` with the latch clear, that tick sets the latch, and
\* the latch is cleared by a tick that observes `disabled` and by nothing else.
C7_cassette_latch ==
    /\ [](removals <= 1)
    /\ [][op' = "tick" =>
            /\ CallsOf(calls', "callback_cassette_removed")
                 = IF polled'.state = "drop_cassette_removed" /\ ~cassette_removed
                   THEN << Called("callback_cassette_removed", << >>) >> ELSE << >>
            /\ (polled'.state = "drop_cassette_removed" => cassette_removed')]_vars
    /\ [][(cassette_removed /\ ~cassette_removed') =>
            (op' = "tick" /\ polled'.state = "disabled")]_vars

\* `drop_cassette_removed` observed again with the latch set: no callback
C7_latched_again ==
    /\ op = "tick" /\ polled.state = "drop_cassette_removed"
    /\ calls = << >> /\ cassette_removed /\ removals = 1

\* C8: a tick invokes callback_device_removed only if the read of its POLL
\* exchange returned no byte.
C8_device_removed_only_silent ==
    (op = "tick" /\ CallsOf(calls, "callback_device_removed") # << >>)
        => PollReadNothing(wire)

\* C9: a tick whose POLL exchange read no byte dispatches `response_error`,
\* invokes callback_device_removed exactly once and returns, whatever the
\* ticks before it did; the handler leaves the session as the timeout step
\* of the tick left it.
C9_silent_device ==
    [][(op' = "tick" /\ PollReadNothing(wire')) =>
         /\ exc' = "none"
         /\ polled'.state = "response_error"
         /\ CallsOf(calls', "callback_device_removed")
              = << Called("callback_device_removed", << >>) >>
         /\ UNCHANGED cassette_removed
         /\ << active', amount', on_time', timeout', current_amount' >>
              = IF Expired THEN << FALSE, 0, 0, 0, 0 >>
                ELSE << active, amount, on_time, timeout, current_amount >>]_vars

\* a silent device during a session that has counted a bill, after an
\* earlier silent tick that set nothing
C9_silent_in_session ==
    /\ op = "tick" /\ PollReadNothing(wire)
    /\ active /\ current_amount = 1 /\ now = MaxTime
    /\ CallsOf(calls, "callback_device_removed") # << >>

\* C10: turn_off returns the current_amount it was called with, resets
\* active, amount, on_time, timeout and current_amount, and leaves
\* cassette_removed; with force it writes one RESET and nothing else, without
\* force one ENABLE_BILL_TYPES with six zero bytes and then the ACK.
C10_turn_off ==
    [][op' = "turn_off" =>
         /\ exc' = "none"
         /\ ret' = IntValue(current_amount)
         /\ ~active' /\ amount' = 0 /\ on_time' = 0 /\ timeout' = 0
         /\ current_amount' = 0
         /\ UNCHANGED cassette_removed
         /\ SelectSeq(wire', LAMBDA e : e.op = "write")
              = IF arg'.force
                THEN << Written(get_cmd_reset) >>
                ELSE << Written(get_cmd_disable_bill_types),
                        Written(get_ack) >>]_vars

\* C11: for every opcode and every data of 0 to 250 bytes, build_message
\* returns a frame that starts with SYNC and ADR, whose LNG byte is a byte
\* and is the length of the frame (6 + the length of the data), whose last two
\* bytes are the checksum of the bytes before them, and that validate_message
\* accepts.
C11_build_message ==
    fn = "build_message" =>
        /\ output.exc = "none"
        /\ Len(output.frame) = 6 + Len(input.data)
        /\ output.frame[1] = SYNC
        /\ output.frame[2] = ADR
        /\ output.frame[3] = Len(output.frame)
        /\ output.frame[3] \in 0..255
        /\ Drop(output.frame, Len(output.frame) - 2)
             = get_crc(Take(output.frame, Len(output.frame) - 2)).val
        /\ validate_message(output.frame) = Ok(TRUE)

\* C12: get_bill_table on a valid frame returns, without exception, one entry
\* for each complete group of 5 bytes of the body, in the order of the body:
\* entry i has the amount byte 5i times 10 to the power of byte 5i+4 and the
\* code of the bytes 5i+1..5i+3 (24 entries for a body of 120 bytes); the
\* bytes of a last group that is not complete are dropped.
C12_get_bill_table ==
    (fn = "get_bill_table" /\ validate_response(input.data) = Ok(TRUE)) =>
        /\ output.exc = "none"
        /\ output.table.kind = "list"
        /\ Len(output.table.items) = Len(response_body(input.data)) \div 5
        /\ \A i \in 0..((Len(response_body(input.data)) \div 5) - 1) :
              output.table.items[i + 1]
                = [amount |-> response_body(input.data)[(5 * i) + 1]
                                * Pow10(response_body(input.data)[(5 * i) + 5]),
                   code |-> << response_body(input.data)[(5 * i) + 2],
                               response_body(input.data)[(5 * i) + 3],
                               response_body(input.data)[(5 * i) + 4] >>]

\* whether the bytes f are a well-formed frame: SYNC, ADR, LNG the length of
\* f, and the last two bytes the checksum of the bytes before them
WellFormed(f) ==
    /\ Len(f) >= 5
    /\ f[1] = SYNC
    /\ f[2] = ADR
    /\ f[3] = Len(f)
    /\ Drop(f, Len(f) - 2) = get_crc(Take(f, Len(f) - 2)).val

\* C13: validate_message and get_poll raise for no sequence of bytes: for the
\* empty sequence, for 1 to 4 bytes and for a frame that breaks one of the
\* four conditions validate_message returns False and get_poll returns the
\* state response_error with the data [0], and get_poll returns the same for a
\* well-formed frame whose body is empty.
C13_never_raise ==
    /\ fn = "validate_message" =>
          /\ output.exc = "none"
          /\ output.valid = WellFormed(input.data)
    /\ fn = "get_poll" =>
          /\ output.exc = "none"
          /\ (~WellFormed(input.data) \/ response_body(input.data) = << >>)
                => (output.poll.state = "response_error"
                    /\ output.poll.data = << 0 >>)

\* C14: a tick that observes power_up, power_up_with_bill_in_validator or
\* power_up_with_bill_in_stacker returns without exception, and the frames
\* it writes end with the POLL, its ACK and one RESET that no ACK follows.
C14_power_up ==
    (/\ op = "tick"
     /\ polled.state \in { "power_up", "power_up_with_bill_in_validator",
                          "power_up_with_bill_in_stacker" })
    =>
    (/\ exc = "none"
     /\ Writes(wire, RESET) = << Written(get_cmd_reset) >>
     /\ LastWrites(wire, 3)
          = << Written(get_cmd_poll), Written(get_ack), Written(get_cmd_reset) >>)

\* whether the operations w hold, from position i, a whole exchange of the
\* command with confirmation: the command written, the header read, the rest
\* read when the header is not empty, and the ACK written
ExchangeAt(w, i, command) ==
    /\ i + 2 <= Len(w)
    /\ w[i] = Written(command)
    /\ w[i + 1].op = "read" /\ w[i + 1].size = 3
    /\ IF w[i + 1].data = << >>
       THEN w[i + 2] = Written(get_ack)
       ELSE /\ i + 3 <= Len(w)
            /\ w[i + 2].op = "read"
            /\ w[i + 3] = Written(get_ack)

\* the response read in the exchange that starts at position i of w
ResponseAt(w, i) ==
    IF w[i + 1].data = << >> THEN << >> ELSE w[i + 1].data \o w[i + 2].data

\* C15: every tick, with or without a session and with or without a timeout
\* in that tick, writes the POLL frame once, reads its response and writes the
\* ACK, and dispatches on the Response that get_poll decodes from what was
\* read.
C15_one_poll ==
    op = "tick" =>
        /\ Writes(wire, POLL) = << Written(get_cmd_poll) >>
        /\ \E i \in DOMAIN wire :
              /\ ExchangeAt(wire, i, get_cmd_poll)
              /\ get_poll(ResponseAt(wire, i)).exc = "none"
              /\ polled = get_poll(ResponseAt(wire, i)).val

\* the command frames (all but the ACK) among the operations w, and the
\* positions of the reads of a header: the reads that follow a write
CommandWrites(w) == SelectSeq(w, LAMBDA e : e.op = "write" /\ e.data[4] # ACK)
HeaderReads(w) ==
    { i \in 2..Len(w) : w[i].op = "read" /\ w[i - 1].op = "write" }

\* C16: a tick writes at most one command frame, reads at most one response
\* (header and rest) and writes at most one ACK, whatever the session, the
\* timeout and the state the device reports.
C16_one_exchange ==
    op = "tick" =>
        /\ Len(CommandWrites(wire)) <= 1
        /\ Cardinality(HeaderReads(wire)) <= 1
        /\ Len(Writes(wire, ACK)) <= 1

\* whether the bill table holds, in the slot, a bill of the configured country
\* whose amount is enabled
Accepted(table, slot) ==
    /\ table.kind = "list"
    /\ slot < Len(table.items)
    /\ table.items[slot + 1].code = country_code
    /\ table.items[slot + 1].amount \in enabled_bill

\* whether the frame f is an ENABLE_BILL_TYPES frame with 6 bytes of data
\* whose first three bytes are, big-endian, the mask of the slots 0..23 of the
\* table that are accepted, and whose last three bytes repeat them
EnablesAccepted(f, table) ==
    /\ Len(f) = 12
    /\ f[4] = ENABLE_BILL_TYPES
    /\ validate_message(f) = Ok(TRUE)
    /\ \A slot \in 0..23 :
          ((((65536 * f[5]) + (256 * f[6]) + f[7]) \div Pow2(slot)) % 2 = 1)
             <=> Accepted(table, slot)
    /\ << f[8], f[9], f[10] >> = << f[5], f[6], f[7] >>

\* C17: a tick that calls enable_bill_types (it observes `disabled` with a
\* session active) performs a whole GET_BILL_TABLE exchange, leaves as the
\* bill table what get_bill_table parses from its response, and then performs
\* one whole ENABLE_BILL_TYPES exchange whose 6 data bytes are the mask of the
\* accepted slots 0..23, big-endian, twice.
C17_enable_bill_types ==
    (op = "tick" /\ polled.state = "disabled"
       /\ Writes(wire, GET_BILL_TABLE) # << >>)
    =>
    \E i \in DOMAIN wire :
       /\ ExchangeAt(wire, i, get_cmd_get_bill_table)
       /\ get_bill_table(ResponseAt(wire, i)).exc = "none"
       /\ bill_table = get_bill_table(ResponseAt(wire, i)).val
       /\ Len(Writes(wire, ENABLE_BILL_TYPES)) = 1
       /\ \E j \in (i + 1)..Len(wire) :
             /\ ExchangeAt(wire, j, Writes(wire, ENABLE_BILL_TYPES)[1].data)
             /\ EnablesAccepted(wire[j].data, bill_table)

\* whether get_bill_table parses from the response a table of 24 records or
\* more
UsableTable(response) ==
    /\ get_bill_table(response).exc = "none"
    /\ get_bill_table(response).val.kind = "list"
    /\ Len(get_bill_table(response).val.items) >= 24

\* C18: a tick that observes `disabled` with a session active and whose
\* GET_BILL_TABLE exchange reads a response that is empty, not valid or of
\* fewer than 24 records returns without exception.
C18_short_table ==
    (/\ op = "tick" /\ polled.state = "disabled"
     /\ \E i \in DOMAIN wire :
           /\ ExchangeAt(wire, i, get_cmd_get_bill_table)
           /\ ~UsableTable(ResponseAt(wire, i)))
    => exc = "none"

\* C19 as stated: a tick that observes `disabled` clears the latch of the
\* cassette; it calls enable_bill_types once if a session is active when the
\* handler runs, and otherwise (no session, or a session that timed out in
\* this tick) writes no GET_BILL_TABLE and no ENABLE_BILL_TYPES frame and
\* leaves the bill table.
C19_disabled_as_stated ==
    [][(op' = "tick" /\ polled'.state = "disabled") =>
         /\ ~cassette_removed'
         /\ IF active /\ ~Expired
            THEN Len(Writes(wire', GET_BILL_TABLE)) = 1
            ELSE /\ Writes(wire', GET_BILL_TABLE) = << >>
                 /\ Writes(wire', ENABLE_BILL_TYPES) = << >>
                 /\ UNCHANGED bill_table]_vars

\* C19: a tick that observes `disabled` clears the latch of the cassette; it
\* calls enable_bill_types once (one GET_BILL_TABLE frame, at most one
\* ENABLE_BILL_TYPES frame) if a session is active when the handler runs,
\* whatever the ticks before it did; otherwise it writes no GET_BILL_TABLE
\* frame and nothing after the POLL and its ACK, the only ENABLE_BILL_TYPES
\* frame of the tick being the disable of a timeout, and leaves the bill table.
C19_disabled ==
    [][(op' = "tick" /\ polled'.state = "disabled") =>
         /\ ~cassette_removed'
         /\ IF active /\ ~Expired
            THEN /\ Len(Writes(wire', GET_BILL_TABLE)) = 1
                 /\ Len(Writes(wire', ENABLE_BILL_TYPES)) <= 1
            ELSE /\ Writes(wire', GET_BILL_TABLE) = << >>
                 /\ LastWrites(wire', 2)
                      = << Written(get_cmd_poll), Written(get_ack) >>
                 /\ Writes(wire', ENABLE_BILL_TYPES)
                      = IF Expired THEN << Written(get_cmd_disable_bill_types) >>
                        ELSE << >>
                 /\ UNCHANGED bill_table]_vars

\* a second tick in a row observes `disabled` with the session active and
\* re-arms the device again
C19_rearmed_again ==
    /\ op = "tick" /\ polled.state = "disabled" /\ exc = "none"
    /\ active /\ rearms = MaxRearms
    /\ Len(Writes(wire, GET_BILL_TABLE)) = 1
    /\ Len(Writes(wire, ENABLE_BILL_TYPES)) = 1

\* whether the ACK is written at position k of the operations w when it is
\* expected, and is not written there when it is not
AckAt(w, k, expected) ==
    IF expected THEN k <= Len(w) /\ w[k] = Written(get_ack)
    ELSE k > Len(w) \/ w[k] # Written(get_ack)

\* whether the exchange of the command written at position i of the
\* operations w goes on in order: the read of 3 bytes, no other read when it
\* returned nothing, else one read of LNG - 3 bytes, then the ACK if and only
\* if it is expected; a header of 1 or 2 bytes does not end the exchange with
\* the exception e
InOrder(w, i, expected, e) ==
    /\ i + 1 <= Len(w)
    /\ w[i + 1].op = "read"
    /\ w[i + 1].size = 3
    /\ CASE w[i + 1].data = << >> -> AckAt(w, i + 2, expected)
         [] Len(w[i + 1].data) = 3 ->
               /\ i + 2 <= Len(w)
               /\ w[i + 2].op = "read"
               /\ w[i + 2].size = w[i + 1].data[3] - 3
               /\ AckAt(w, i + 3, expected)
         [] OTHER ->
               /\ ~(i + 1 = Len(w) /\ e # "none")
               /\ \/ AckAt(w, i + 2, expected)
                  \/ (/\ i + 2 <= Len(w) /\ w[i + 2].op = "read"
                      /\ AckAt(w, i + 3, expected))

\* C20: every exchange of a command writes the command, reads 3 bytes, reads
\* LNG - 3 more bytes only if the first read returned bytes, and then writes
\* the ACK if and only if the command expects it (all but RESET); it is not
\* retried and raises nothing, also when the header read returns 1 or 2 bytes
\* or LNG is less than 3.
C20_exchange_order ==
    \A i \in DOMAIN wire :
       (wire[i].op = "write" /\ wire[i].data[4] # ACK) =>
           InOrder(wire, i, wire[i].data[4] # RESET, exc)

\* C21: a tick that observes `stacked`, `escrow` or `returned` naming a bill
\* that the bill table does not hold (no table loaded, or an index past its
\* end) returns without exception, and counts the bill for nothing: the
\* amount it hands to callback_bill_stacked, if it calls it, is 0.
C21_unknown_bill ==
    (/\ op = "tick"
     /\ polled.state \in { "stacked", "escrow", "returned" }
     /\ ~BillKnown(polled))
    =>
    (/\ exc = "none"
     /\ \A i \in DOMAIN calls :
           calls[i].name = "callback_bill_stacked" => calls[i].args = << 0 >>)


\* the state names of poll_states
PollStateNames == { poll_states[c] : c \in DOMAIN poll_states }

\* C22: the dispatch of tick is total over poll_states: a tick whose poll gave
\* a state of poll_states finds a method for it, so that it never ends in the
\* AttributeError of a missing method.
C22_dispatch_total ==
    (op = "tick" /\ polled.state \in PollStateNames) => exc # "AttributeError"


\* C23: whenever a call has returned or raised, and between the calls, if no
\* session is active then amount, current_amount, on_time and timeout are all
\* 0: every end of a session (amount reached, timeout, turn_off forced or
\* not) and every `stacked` observed without a session leaves the fields as
\* the constructor set them.
C23_defaults ==
    ~active => (amount = 0 /\ current_amount = 0 /\ on_time = 0 /\ timeout = 0)

\* a tick that closed the session on timeout and then observed `stacked` for a
\* bill of the table: the bill was counted without a session, and the fields
\* are 0 again when the tick returns
C23_stacked_without_session ==
    /\ op = "tick" /\ exc = "none" /\ polled.state = "stacked"
    /\ \E i, j \in DOMAIN calls :
          /\ i < j
          /\ calls[i].name = "callback_timeout"
          /\ calls[j] = Called("callback_bill_stacked", << 1 >>)
    /\ ~active /\ amount = 0 /\ current_amount = 0 /\ on_time = 0 /\ timeout = 0


\* the callbacks named cb among the calls cs are all given the amount n
Handed(cs, cb, n) ==
    \A i \in DOMAIN cs : cs[i].name = cb => cs[i].args = << n >>

\* a step that keeps the session active never lowers current_amount
NeverLower == (active /\ active') => current_amount' >= current_amount

\* a step that closes the session hands on the sum of the session: turn_off
\* returns it, the tick that times out gives it to callback_timeout, and the
\* tick that reaches the amount gives it, the bill of that tick included, to
\* callback_get_bills_done
ClosesWithSum ==
    (active /\ ~active') =>
        /\ (op' = "turn_off" /\ exc' = "none") => ret' = IntValue(stacked_sum)
        /\ (op' = "tick" /\ Expired) =>
              /\ Handed(calls', "callback_timeout", stacked_sum)
              /\ exc' = "none" => CallsOf(calls', "callback_timeout") # << >>
        /\ (op' = "tick" /\ ~Expired) =>
              /\ Handed(calls', "callback_get_bills_done",
                        stacked_sum + StackedIn(calls'))
              /\ exc' = "none" => CallsOf(calls', "callback_get_bills_done") # << >>

\* C24: while a session is active, current_amount is the sum of the amounts
\* passed to callback_bill_stacked since the get_bills that opened it; it
\* never decreases during the session; and what closes the session
\* (callback_get_bills_done, callback_timeout, the return of turn_off) is
\* given that sum.
C24_session_sum ==
    /\ [](active => current_amount = stacked_sum)
    /\ [][NeverLower /\ ClosesWithSum]_vars

\* a session in which a bill was stacked has timed out: the tick gave the sum
\* of the session, which is not 0, to callback_timeout
C24_timeout_hands_sum ==
    /\ op = "tick" /\ ~active
    /\ \E i \in DOMAIN calls :
          calls[i].name = "callback_timeout" /\ calls[i].args[1] > 0


\* C25: when tick is called again and again and the clock passes every time
\* allowed, every session that get_bills made active becomes inactive, whatever
\* the device answers.
C25_sessions_end == active ~> ~active

\* the tick that ended a session on timeout while the device cut its answer
\* short: the disable of turn_off was written, the exchange raised, and the
\* session is inactive all the same
C25_ended_by_raising_tick ==
    /\ op = "tick" /\ exc = "IndexError" /\ polled = NoResponse
    /\ wire # << >> /\ wire[1] = Written(get_cmd_disable_bill_types)
    /\ ~active

=============================================================================
